---- MODULE Spec2Model ----
(***************************************************************************)
(* replicate-to-s3: the driver (main), the snapshot copier (copy_table),   *)
(* the stream copier (copy_realtime_changes) and resumption               *)
(* (get_relatime_resumption_data) of src/replicate-to-s3/src/main.rs, as a *)
(* state machine over the S3 bucket, the upstream log and the process's    *)
(* locals.  The process may crash at any await and be started again.       *)
(*                                                                         *)
(* An Event keeps event_type, relation_id and last_lsn; its wall-clock     *)
(* timestamp and its data payload are left out, and the field src names    *)
(* the upstream message or row the event was made from (a history field).  *)
(* Object keys are sequences of characters (the words table_copies and     *)
(* realtime_changes are one token each), so that a prefix listing matches  *)
(* exactly the keys the S3 listing matches.                                *)
(***************************************************************************)
EXTENDS Integers, Sequences, FiniteSets, TLC

\* src/replicate-to-s3/src/main.rs:72
ROWS_PER_DATA_CHUNK == 10

(***************************************************************************)
(* Bounds of the model.                                                    *)
(***************************************************************************)
\* least number of messages in an upstream log (rounded up to whole transactions)
LogLen == 21
\* most row changes in one upstream transaction
MaxTxnChanges == 2
\* most process starts in one behaviour
MaxRuns == 2
\* rows a table holds beyond one full chunk, in the largest table
ExtraRows == 2
\* the LSN at which a fresh replication slot is created (its consistent point)
SlotLsn == 1

\* bytes of the encoding of one event
EventLen == 2
\* most whole records in an object whose tail is torn
MaxTornRecords == 2

\* the first upstream transaction that changes a table added to the publication
NewTableTxn == 4

\* Option<T>: None is the empty sequence and Some(x) the sequence of x alone
None == <<>>
Some(x) == <<x>>

(***************************************************************************)
(* Keys.  format!("{n}") and str::parse::<u32>.                            *)
(***************************************************************************)
Digit(d) ==
  CASE d = 0 -> "0" [] d = 1 -> "1" [] d = 2 -> "2" [] d = 3 -> "3" [] d = 4 -> "4"
    [] d = 5 -> "5" [] d = 6 -> "6" [] d = 7 -> "7" [] d = 8 -> "8" [] d = 9 -> "9"

DigitValue(c) ==
  CASE c = "0" -> 0 [] c = "1" -> 1 [] c = "2" -> 2 [] c = "3" -> 3 [] c = "4" -> 4
    [] c = "5" -> 5 [] c = "6" -> 6 [] c = "7" -> 7 [] c = "8" -> 8 [] c = "9" -> 9
    [] OTHER -> -1

RECURSIVE FormatU32(_)
FormatU32(n) == IF n < 10 THEN <<Digit(n)>> ELSE FormatU32(n \div 10) \o <<Digit(n % 10)>>

\* the value of a decimal string, or -1 when the string is no number
RECURSIVE ParseU32(_)
ParseU32(s) ==
  IF s = <<>> THEN -1
  ELSE LET d == DigitValue(s[Len(s)])
       IN IF d < 0 THEN -1
          ELSE IF Len(s) = 1 THEN d
          ELSE LET hi == ParseU32(SubSeq(s, 1, Len(s) - 1))
               IN IF hi < 0 THEN -1 ELSE hi * 10 + d

StartsWith(key, prefix) ==
  /\ Len(prefix) <= Len(key)
  /\ SubSeq(key, 1, Len(prefix)) = prefix

StripPrefix(key, prefix) == SubSeq(key, Len(prefix) + 1, Len(key))

\* main.rs:509
REALTIME_CHANGES_PREFIX == <<"realtime_changes", "/">>
\* main.rs:155
REALTIME_CHANGES_PATH_PREFIX == <<"realtime_changes">>

\* format!("table_copies/{}.{}", schema, name): main.rs:653 and main.rs:683
TablePathPrefix(table) == <<"table_copies", "/">> \o table.schema \o <<".">> \o table.name

\* format!("{path_prefix}/{data_chunk_count}"): main.rs:866 and main.rs:722
ChunkPath(path_prefix, n) == path_prefix \o <<"/">> \o FormatU32(n)

\* main.rs:626
get_done_object_path(table) ==
  <<"table_copies", "/">> \o table.schema \o <<".">> \o table.name \o <<"/", "d", "o", "n", "e">>

(***************************************************************************)
(* The upstream log: whole transactions Begin, [Relation], changes, Commit *)
(***************************************************************************)
ChangeKinds == <<"Insert", "Update", "Delete">>

TxnKinds(c, rel) ==
  <<"Begin">> \o (IF rel THEN <<"Relation">> ELSE <<>>)
    \o [j \in 1..c |-> ChangeKinds[((j - 1) % 3) + 1]] \o <<"Commit">>

LsnModes == {"strict", "txn", "zero"}

\* strict: every message has its own LSN; txn: the messages of a transaction
\* share one LSN; zero: the first ROWS_PER_DATA_CHUNK messages carry LSN 0
WalEnd(mode, i, txn) ==
  CASE mode = "strict" -> SlotLsn + i
    [] mode = "txn" -> SlotLsn + txn
    [] mode = "zero" -> IF i <= ROWS_PER_DATA_CHUNK THEN 0 ELSE SlotLsn + i

MakeWal(c, rel, mode) ==
  LET kinds == TxnKinds(c, rel)
      per == Len(kinds)
      ntx == (LogLen + per - 1) \div per
  IN [i \in 1..(per * ntx) |->
        LET txn == ((i - 1) \div per) + 1
            kind == kinds[((i - 1) % per) + 1]
        IN [kind |-> kind,
            wal_end |-> WalEnd(mode, i, txn),
            rel_id |-> IF kind \in {"Begin", "Commit"} THEN 0 ELSE 1,
            txn |-> txn]]

\* the log when a table that is not in the schema map (relation 2) is added to
\* the publication: the transactions from NewTableTxn on change its rows
WithNewTable(w) ==
  [i \in DOMAIN w |->
     IF w[i].txn >= NewTableTxn /\ w[i].rel_id # 0 THEN [w[i] EXCEPT !.rel_id = 2] ELSE w[i]]

WalsNewTable ==
  {WithNewTable(MakeWal(1, rel, "strict")) : rel \in BOOLEAN}
    \cup {WithNewTable(MakeWal(1, FALSE, "txn"))}

Wals ==
  {MakeWal(c, rel, mode) : c \in 1..MaxTxnChanges, rel \in BOOLEAN, mode \in LsnModes}
    \cup WalsNewTable

DefaultWal == MakeWal(1, FALSE, "strict")

(***************************************************************************)
(* The published tables                                                    *)
(***************************************************************************)
TableNames == {<<"t">>, <<"t", "2">>, <<"u">>}
SchemaNames == {<<"p">>}
Tables == [schema : SchemaNames, name : TableNames]

MkSchema(id, table) == [relation_id |-> id, table |-> table]

TableLists ==
  {<<MkSchema(1, a)>> : a \in Tables}
    \cup {<<MkSchema(1, ab[1]), MkSchema(2, ab[2])>> :
             ab \in {x \in Tables \X Tables : x[1] # x[2]}}

DefaultTables == <<MkSchema(1, [schema |-> <<"p">>, name |-> <<"t">>])>>

\* the numbers of rows a table may hold when it is copied
RowCounts == {0, ROWS_PER_DATA_CHUNK - 1, ROWS_PER_DATA_CHUNK + ExtraRows}

VARIABLES
  bucket,            \* the S3 bucket: key -> object (a sequence of events)
  wal,               \* the upstream log of XLogData messages
  schemas,           \* get_schemas(): the published tables, in order
  pc,                \* where the process is
  runs,              \* process starts so far
  resumption_data,   \* the client's Option<ResumptionData>
  consistent_point,  \* the client's consistent_point
  ti,                \* main's loop over schemas: index of the current table
  rows,              \* copy_table: rows the COPY stream still has to yield
  rows_total,        \* copy_table: rows the table holds in this snapshot
  row_count,         \* row_count of copy_table / copy_realtime_changes
  data_chunk_count,  \* data_chunk_count of copy_table / copy_realtime_changes
  data_chunk_buf,    \* data_chunk_buf of copy_table / copy_realtime_changes
  last_lsn,          \* copy_realtime_changes: last_lsn
  pos,               \* index in wal of the next message upstream sends
  status_update,     \* the last standby_status_update of this run (an Option)
  sink_ops,          \* the bucket writes of the last step (history)
  removed,           \* the table whose done marker the operator removed last, when
                     \* every table had its marker; 0 when there is none (history)
  drained,           \* upstream has closed the stream after its last message (history)
  copied_at,         \* per table, the consistent_point of the snapshot transaction in
                     \* which the chunks it has in the bucket were read; 0 when it has
                     \* none (history)
  ignored_msg        \* the kind of the message the last step took, when it is one
                     \* the stream copier ignores; "" otherwise (history)

vars == <<bucket, wal, schemas, pc, runs, resumption_data, consistent_point, ti, rows,
          rows_total, row_count, data_chunk_count, data_chunk_buf, last_lsn, pos,
          status_update, sink_ops, removed, drained, copied_at, ignored_msg>>

(***************************************************************************)
(* The sink store: put_object, delete_objects, list_objects_v2             *)
(***************************************************************************)
EmptyBucket == [k \in {} |-> <<>>]

PutObject(b, key, body) ==
  [k \in (DOMAIN b) \cup {key} |-> IF k = key THEN body ELSE b[k]]

DeleteObjects(b, keys) == [k \in (DOMAIN b) \ keys |-> b[k]]

\* main.rs:894-919
list_objects(prefix) == {k \in DOMAIN bucket : StartsWith(k, prefix)}

PutOp(key) == [op |-> "put", keys |-> {key}]
DeleteOp(keys) == [op |-> "delete", keys |-> keys]

SetMax(S) == CHOOSE x \in S : \A y \in S : y <= x

(***************************************************************************)
(* Resumption: main.rs:511-596                                             *)
(***************************************************************************)
\* the order of the keys in a listing
RECURSIVE LexLeq(_, _)
LexLeq(a, b) ==
  IF a = <<>> THEN TRUE
  ELSE IF b = <<>> THEN FALSE
  ELSE IF a[1] = b[1] THEN LexLeq(Tail(a), Tail(b))
  ELSE DigitValue(a[1]) < DigitValue(b[1])

\* a variant of largest_realtime_file_number that takes the last key of the listing
largest_realtime_file_number_LastListed ==
  LET keys == {StripPrefix(k, REALTIME_CHANGES_PREFIX) : k \in list_objects(REALTIME_CHANGES_PREFIX)}
  IN IF keys = {} THEN None
     ELSE Some(ParseU32(CHOOSE k \in keys : \A j \in keys : LexLeq(j, k)))

\* a variant of largest_realtime_file_number that finds no stream chunk
largest_realtime_file_number_FindsNone == None

\* main.rs:563-596 (every key under realtime_changes/ of this model is a number)
largest_realtime_file_number ==
  LET keys == list_objects(REALTIME_CHANGES_PREFIX)
  IN IF keys = {} THEN None
     ELSE Some(SetMax({ParseU32(StripPrefix(k, REALTIME_CHANGES_PREFIX)) : k \in keys}))

\* main.rs:534-547 on an object that holds whole records only
LastRecord(v) == v[Len(v)]

\* a variant of get_relatime_resumption_data that sets skipping_events whatever
\* the last record is
get_relatime_resumption_data_AlwaysSkipping ==
  IF largest_realtime_file_number = None THEN None
  ELSE LET last_file_name == largest_realtime_file_number[1]
           event == LastRecord(bucket[REALTIME_CHANGES_PREFIX \o FormatU32(last_file_name)])
       IN Some([resume_lsn |-> event.last_lsn,
                last_event_type |-> event.event_type,
                last_file_name |-> last_file_name,
                skipping_events |-> TRUE])

\* main.rs:511-555
get_relatime_resumption_data ==
  IF largest_realtime_file_number = None THEN None
  ELSE LET last_file_name == largest_realtime_file_number[1]
           event == LastRecord(bucket[REALTIME_CHANGES_PREFIX \o FormatU32(last_file_name)])
       IN Some([resume_lsn |-> event.last_lsn,
                last_event_type |-> event.event_type,
                last_file_name |-> last_file_name,
                skipping_events |-> event.event_type # "Commit"])

(***************************************************************************)
(* The replication client (the pg_replicate library, modelled from the     *)
(* specification: sections 4.C and 4.F, scenarios S3 and S4)               *)
(***************************************************************************)
\* ReplicationClient::new: the slot is re-opened at resume_lsn, or created
NewConsistentPoint(rd) == IF rd = None THEN SlotLsn ELSE rd[1].resume_lsn

\* should_skip(lsn, kind)
should_skip(rd, lsn, kind) ==
  /\ rd # None
  /\ lsn <= rd[1].resume_lsn
  /\ (rd[1].skipping_events \/ rd[1].last_event_type = "Commit")

\* stop_skipping_events()
stop_skipping_events(rd) ==
  IF rd = None THEN rd ELSE Some([rd[1] EXCEPT !.skipping_events = FALSE])

CommitLsn(txn) ==
  LET i == CHOOSE j \in 1..Len(wal) : wal[j].txn = txn /\ wal[j].kind = "Commit"
  IN wal[i].wal_end

\* start_replication_slot: a fresh slot streams from the start of the log; a
\* slot re-opened at resume_lsn sends again, whole, every transaction whose
\* Commit is at or after resume_lsn
StartPos(rd) ==
  IF rd = None THEN 1
  ELSE LET from == {i \in 1..Len(wal) : /\ wal[i].kind = "Begin"
                                         /\ CommitLsn(wal[i].txn) >= rd[1].resume_lsn}
       IN IF from = {} THEN Len(wal) + 1
          ELSE CHOOSE i \in from : \A j \in from : i <= j

(***************************************************************************)
(* Events and chunks                                                       *)
(***************************************************************************)
\* main.rs:833-853
event_to_cbor(event_type, relation_id, last_lsn_, src) ==
  [event_type |-> event_type, relation_id |-> relation_id, last_lsn |-> last_lsn_,
   src |-> src]

\* main.rs:778-786
write_table_schema_to_buf(schema) ==
  event_to_cbor("Schema", Some(schema.relation_id), 0, 0)

\* main.rs:731-754
binary_copy_out_row_to_cbor_buf(schema, row) ==
  [event_type |-> "Insert", relation_id |-> Some(schema.relation_id), last_lsn |-> 0,
   src |-> row]

\* a variant of try_save_data_chunk that flushes one event early
try_save_data_chunk_OneEarly(rc, cc, buf, path_prefix) ==
  IF rc + 2 >= ROWS_PER_DATA_CHUNK
  THEN [save |-> TRUE, path |-> ChunkPath(path_prefix, cc + 1),
        row_count |-> 0, data_chunk_count |-> cc + 1, data_chunk_buf |-> <<>>]
  ELSE [save |-> FALSE, path |-> <<>>,
        row_count |-> rc + 1, data_chunk_count |-> cc, data_chunk_buf |-> buf]

\* main.rs:855-874: the locals after the call, and the put it asks for
try_save_data_chunk(rc, cc, buf, path_prefix) ==
  IF rc + 1 = ROWS_PER_DATA_CHUNK
  THEN [save |-> TRUE, path |-> ChunkPath(path_prefix, cc + 1),
        row_count |-> 0, data_chunk_count |-> cc + 1, data_chunk_buf |-> <<>>]
  ELSE [save |-> FALSE, path |-> <<>>,
        row_count |-> rc + 1, data_chunk_count |-> cc, data_chunk_buf |-> buf]

(***************************************************************************)
(* Init                                                                    *)
(***************************************************************************)
Stopped ==
  /\ resumption_data' = None
  /\ consistent_point' = 0
  /\ ti' = 0
  /\ rows' = 0
  /\ rows_total' = 0
  /\ row_count' = 0
  /\ data_chunk_count' = 0
  /\ data_chunk_buf' = <<>>
  /\ last_lsn' = 0
  /\ pos' = 0
  /\ status_update' = None

InitWith(wals) ==
  /\ \/ wal \in wals /\ schemas = DefaultTables
     \/ wal = DefaultWal /\ schemas \in TableLists
  /\ bucket = EmptyBucket
  /\ pc = "stopped"
  /\ runs = 0
  /\ resumption_data = None
  /\ consistent_point = 0
  /\ ti = 0
  /\ rows = 0
  /\ rows_total = 0
  /\ row_count = 0
  /\ data_chunk_count = 0
  /\ data_chunk_buf = <<>>
  /\ last_lsn = 0
  /\ pos = 0
  /\ status_update = None
  /\ sink_ops = <<>>
  /\ removed = 0
  /\ drained = FALSE
  /\ copied_at = [i \in 1..Len(schemas) |-> 0]
  /\ ignored_msg = ""

Init == InitWith(Wals)

\* upstream logs in which every message carries a known (non-zero) LSN
InitPositiveLsn == InitWith({w \in Wals : \A i \in 1..Len(w) : w[i].wal_end # 0})

(***************************************************************************)
(* The driver: main.rs:75-134                                              *)
(***************************************************************************)
\* main.rs:96-110: resumption, ReplicationClient::new, get_schemas
Start ==
  /\ pc \in {"stopped", "failed", "finished"}
  /\ ignored_msg' = ""
  /\ runs < MaxRuns
  /\ runs' = runs + 1
  /\ resumption_data' = get_relatime_resumption_data
  /\ consistent_point' = NewConsistentPoint(get_relatime_resumption_data)
  /\ ti' = 1
  /\ pc' = "tables"
  /\ rows' = 0
  /\ rows_total' = 0
  /\ row_count' = 0
  /\ data_chunk_count' = 0
  /\ data_chunk_buf' = <<>>
  /\ last_lsn' = 0
  /\ pos' = 0
  /\ status_update' = None
  /\ sink_ops' = <<>>
  /\ UNCHANGED <<bucket, wal, schemas, removed, drained, copied_at>>

\* the process dies at an await: its memory is gone, the bucket stays
Crash ==
  /\ pc \in {"tables", "copy_table", "copy_rows", "mark_done", "stream"}
  /\ ignored_msg' = ""
  /\ pc' = "stopped"
  /\ Stopped
  /\ sink_ops' = <<>>
  /\ UNCHANGED <<bucket, wal, schemas, removed, drained, copied_at, runs>>

\* main.rs:598-624: the get of the done marker succeeds
TableCopyDone ==
  /\ pc = "tables"
  /\ ignored_msg' = ""
  /\ ti <= Len(schemas)
  /\ get_done_object_path(schemas[ti].table) \in DOMAIN bucket
  /\ ti' = ti + 1
  /\ sink_ops' = <<>>
  /\ UNCHANGED <<bucket, wal, schemas, removed, drained, copied_at, pc, runs, resumption_data, consistent_point, rows,
                 rows_total, row_count, data_chunk_count, data_chunk_buf, last_lsn, pos,
                 status_update>>

\* main.rs:612-623: the get fails with a status that is no client error
TableCopyDoneServerError ==
  /\ pc = "tables"
  /\ ignored_msg' = ""
  /\ ti <= Len(schemas)
  /\ get_done_object_path(schemas[ti].table) \notin DOMAIN bucket
  /\ ti' = ti + 1
  /\ sink_ops' = <<>>
  /\ UNCHANGED <<bucket, wal, schemas, removed, drained, copied_at, pc, runs, resumption_data, consistent_point, rows,
                 rows_total, row_count, data_chunk_count, data_chunk_buf, last_lsn, pos,
                 status_update>>

\* main.rs:612-615: the get fails without any response (raw_response() is
\* None), so `?` returns the error and main fails
TableCopyDoneNoResponse ==
  /\ pc = "tables"
  /\ ignored_msg' = ""
  /\ ti <= Len(schemas)
  /\ pc' = "failed"
  /\ sink_ops' = <<>>
  /\ UNCHANGED <<bucket, wal, schemas, removed, drained, copied_at, runs, resumption_data, consistent_point, ti, rows,
                 rows_total, row_count, data_chunk_count, data_chunk_buf, last_lsn, pos,
                 status_update>>

\* a variant of delete_partial_table_copy that deletes nothing
delete_partial_table_copy_KeepsObjects ==
  /\ pc = "tables"
  /\ ignored_msg' = ""
  /\ ti <= Len(schemas)
  /\ get_done_object_path(schemas[ti].table) \notin DOMAIN bucket
  /\ sink_ops' = <<>>
  /\ pc' = "copy_table"
  /\ UNCHANGED <<bucket, wal, schemas, removed, drained, copied_at, runs, resumption_data, consistent_point, ti, rows,
                 rows_total, row_count, data_chunk_count, data_chunk_buf, last_lsn, pos,
                 status_update>>

\* main.rs:115-116 and 648-670: no done marker (a client error), so the keys
\* under the table's prefix are listed and deleted
delete_partial_table_copy ==
  /\ pc = "tables"
  /\ ignored_msg' = ""
  /\ ti <= Len(schemas)
  /\ get_done_object_path(schemas[ti].table) \notin DOMAIN bucket
  /\ LET objects == list_objects(TablePathPrefix(schemas[ti].table))
     IN /\ bucket' = DeleteObjects(bucket, objects)
        /\ sink_ops' = IF objects = {} THEN <<>> ELSE <<DeleteOp(objects)>>
        /\ copied_at' =
             [i \in 1..Len(schemas) |->
                IF list_objects(TablePathPrefix(schemas[i].table) \o <<"/">>) \cap objects # {}
                THEN 0 ELSE copied_at[i]]
  /\ pc' = "copy_table"
  /\ UNCHANGED <<wal, schemas, removed, drained, runs, resumption_data, consistent_point, ti, rows,
                 rows_total, row_count, data_chunk_count, data_chunk_buf, last_lsn, pos,
                 status_update>>

\* a variant of copy_table that does not count the Schema event as a row of
\* the first chunk
copy_table_SchemaNotCounted ==
  /\ pc = "copy_table"
  /\ ignored_msg' = ""
  /\ row_count' = 0
  /\ data_chunk_count' = 0
  /\ data_chunk_buf' = <<write_table_schema_to_buf(schemas[ti])>>
  /\ \E n \in RowCounts : rows_total' = n /\ rows' = n
  /\ pc' = "copy_rows"
  /\ sink_ops' = <<>>
  /\ UNCHANGED <<bucket, wal, schemas, removed, drained, copied_at, runs, resumption_data, consistent_point, ti,
                 last_lsn, pos, status_update>>

\* main.rs:678-705: the Schema event, and the COPY of the table is opened
copy_table ==
  /\ pc = "copy_table"
  /\ ignored_msg' = ""
  /\ LET r == try_save_data_chunk(0, 0, <<write_table_schema_to_buf(schemas[ti])>>,
                                  TablePathPrefix(schemas[ti].table))
     IN /\ row_count' = r.row_count
        /\ data_chunk_count' = r.data_chunk_count
        /\ data_chunk_buf' = r.data_chunk_buf
  /\ \E n \in RowCounts : rows_total' = n /\ rows' = n
  /\ pc' = "copy_rows"
  /\ sink_ops' = <<>>
  /\ UNCHANGED <<bucket, wal, schemas, removed, drained, copied_at, runs, resumption_data, consistent_point, ti,
                 last_lsn, pos, status_update>>

\* main.rs:706-718: one row of the COPY; ok says whether the put succeeds
CopyRow(ok) ==
  /\ pc = "copy_rows"
  /\ ignored_msg' = ""
  /\ rows > 0
  /\ LET row == rows_total - rows + 1
         buf == Append(data_chunk_buf, binary_copy_out_row_to_cbor_buf(schemas[ti], row))
         r == try_save_data_chunk(row_count, data_chunk_count, buf,
                                  TablePathPrefix(schemas[ti].table))
     IN IF r.save /\ ~ok
        THEN /\ pc' = "failed"
             /\ row_count' = row_count + 1
             /\ data_chunk_count' = data_chunk_count + 1
             /\ data_chunk_buf' = buf
             /\ sink_ops' = <<>>
             /\ UNCHANGED <<bucket, rows, copied_at>>
        ELSE /\ ok
             /\ pc' = pc
             /\ row_count' = r.row_count
             /\ data_chunk_count' = r.data_chunk_count
             /\ data_chunk_buf' = r.data_chunk_buf
             /\ rows' = rows - 1
             /\ bucket' = IF r.save THEN PutObject(bucket, r.path, buf) ELSE bucket
             /\ sink_ops' = IF r.save THEN <<PutOp(r.path)>> ELSE <<>>
             /\ copied_at' = IF r.save THEN [copied_at EXCEPT ![ti] = consistent_point]
                             ELSE copied_at
  /\ UNCHANGED <<wal, schemas, removed, drained, runs, resumption_data, consistent_point, ti, rows_total,
                 last_lsn, pos, status_update>>

\* main.rs:707: the COPY stream yields an error
CopyRowError ==
  /\ pc = "copy_rows"
  /\ ignored_msg' = ""
  /\ rows > 0
  /\ pc' = "failed"
  /\ sink_ops' = <<>>
  /\ UNCHANGED <<bucket, wal, schemas, removed, drained, copied_at, runs, resumption_data, consistent_point, ti, rows,
                 rows_total, row_count, data_chunk_count, data_chunk_buf, last_lsn, pos,
                 status_update>>

\* a variant of CopyTableLastChunk that goes on to the done marker when the
\* put of the last chunk has failed
CopyTableLastChunk_IgnoresError(ok) ==
  /\ pc = "copy_rows"
  /\ ignored_msg' = ""
  /\ rows = 0
  /\ IF data_chunk_buf # <<>> /\ ok
     THEN /\ bucket' = PutObject(bucket,
                          ChunkPath(TablePathPrefix(schemas[ti].table), data_chunk_count + 1),
                          data_chunk_buf)
          /\ sink_ops' = <<PutOp(ChunkPath(TablePathPrefix(schemas[ti].table),
                                          data_chunk_count + 1))>>
     ELSE /\ sink_ops' = <<>>
          /\ UNCHANGED bucket
  /\ data_chunk_count' = IF data_chunk_buf # <<>> THEN data_chunk_count + 1 ELSE data_chunk_count
  /\ pc' = "mark_done"
  /\ UNCHANGED <<wal, schemas, removed, drained, copied_at, runs, resumption_data, consistent_point, ti, rows,
                 rows_total, row_count, data_chunk_buf, last_lsn, pos, status_update>>

\* main.rs:720-724: the rows are over; what is left in the buffer is put
CopyTableLastChunk(ok) ==
  /\ pc = "copy_rows"
  /\ ignored_msg' = ""
  /\ rows = 0
  /\ IF data_chunk_buf # <<>>
     THEN /\ data_chunk_count' = data_chunk_count + 1
          /\ IF ok
             THEN /\ bucket' = PutObject(bucket,
                                  ChunkPath(TablePathPrefix(schemas[ti].table),
                                            data_chunk_count + 1),
                                  data_chunk_buf)
                  /\ sink_ops' = <<PutOp(ChunkPath(TablePathPrefix(schemas[ti].table),
                                                  data_chunk_count + 1))>>
                  /\ pc' = "mark_done"
                  /\ copied_at' = [copied_at EXCEPT ![ti] = consistent_point]
             ELSE /\ pc' = "failed"
                  /\ sink_ops' = <<>>
                  /\ UNCHANGED <<bucket, copied_at>>
     ELSE /\ ok
          /\ pc' = "mark_done"
          /\ sink_ops' = <<>>
          /\ UNCHANGED <<bucket, data_chunk_count, copied_at>>
  /\ UNCHANGED <<wal, schemas, removed, drained, runs, resumption_data, consistent_point, ti, rows,
                 rows_total, row_count, data_chunk_buf, last_lsn, pos, status_update>>

\* main.rs:726 and 630-646: the done marker is put, and main's loop goes on
mark_table_copy_done(ok) ==
  /\ pc = "mark_done"
  /\ ignored_msg' = ""
  /\ IF ok
     THEN /\ bucket' = PutObject(bucket, get_done_object_path(schemas[ti].table), <<>>)
          /\ sink_ops' = <<PutOp(get_done_object_path(schemas[ti].table))>>
          /\ pc' = "tables"
          /\ ti' = ti + 1
          /\ rows_total' = 0
          /\ row_count' = 0
          /\ data_chunk_count' = 0
          /\ data_chunk_buf' = <<>>
     ELSE /\ pc' = "failed"
          /\ sink_ops' = <<>>
          /\ UNCHANGED <<bucket, ti, rows_total, row_count, data_chunk_count,
                         data_chunk_buf>>
  /\ UNCHANGED <<wal, schemas, removed, drained, copied_at, runs, resumption_data, consistent_point, rows, last_lsn,
                 pos, status_update>>

\* a variant of start_replication_slot whose chunk counter starts one above the
\* largest number in the bucket
start_replication_slot_CountOneAhead ==
  /\ pc = "tables"
  /\ ignored_msg' = ""
  /\ ti > Len(schemas)
  /\ pc' = "stream"
  /\ row_count' = 0
  /\ data_chunk_count' =
       IF resumption_data = None THEN 0 ELSE resumption_data[1].last_file_name + 1
  /\ data_chunk_buf' = <<>>
  /\ last_lsn' = consistent_point
  /\ pos' = StartPos(resumption_data)
  /\ sink_ops' = <<>>
  /\ UNCHANGED <<bucket, wal, schemas, removed, drained, copied_at, runs, resumption_data, consistent_point, ti, rows,
                 rows_total, status_update>>

\* a variant of start_replication_slot in which last_lsn starts at 0
start_replication_slot_LastLsnZero ==
  /\ pc = "tables"
  /\ ignored_msg' = ""
  /\ ti > Len(schemas)
  /\ pc' = "stream"
  /\ row_count' = 0
  /\ data_chunk_count' =
       IF resumption_data = None THEN 0 ELSE resumption_data[1].last_file_name
  /\ data_chunk_buf' = <<>>
  /\ last_lsn' = 0
  /\ pos' = StartPos(resumption_data)
  /\ sink_ops' = <<>>
  /\ UNCHANGED <<bucket, wal, schemas, removed, drained, copied_at, runs, resumption_data, consistent_point, ti, rows,
                 rows_total, status_update>>

\* a variant of start_replication_slot whose chunk counter starts at 0 in every run
start_replication_slot_CountFromZero ==
  /\ pc = "tables"
  /\ ignored_msg' = ""
  /\ ti > Len(schemas)
  /\ pc' = "stream"
  /\ row_count' = 0
  /\ data_chunk_count' = 0
  /\ data_chunk_buf' = <<>>
  /\ last_lsn' = consistent_point
  /\ pos' = StartPos(resumption_data)
  /\ sink_ops' = <<>>
  /\ UNCHANGED <<bucket, wal, schemas, removed, drained, copied_at, runs, resumption_data, consistent_point, ti, rows,
                 rows_total, status_update>>

\* main.rs:121-131 and 144-154: commit_txn, then copy_realtime_changes starts
\* the replication slot and sets up its locals
start_replication_slot ==
  /\ pc = "tables"
  /\ ignored_msg' = ""
  /\ ti > Len(schemas)
  /\ pc' = "stream"
  /\ row_count' = 0
  /\ data_chunk_count' =
       IF resumption_data = None THEN 0 ELSE resumption_data[1].last_file_name
  /\ data_chunk_buf' = <<>>
  /\ last_lsn' = consistent_point
  /\ pos' = StartPos(resumption_data)
  /\ sink_ops' = <<>>
  /\ UNCHANGED <<bucket, wal, schemas, removed, drained, copied_at, runs, resumption_data, consistent_point, ti, rows,
                 rows_total, status_update>>

(***************************************************************************)
(* The stream copier: main.rs:136-389                                      *)
(***************************************************************************)
\* rel_id_to_schema: main.rs:112-114
rel_id_to_schema == {schemas[i].relation_id : i \in 1..Len(schemas)}

NeedsSchema(kind) == kind \in {"Relation", "Insert", "Update", "Delete"}

\* the Option<&TableSchema> handed to event_to_cbor
EventRelation(m) == IF NeedsSchema(m.kind) THEN Some(m.rel_id) ELSE None

\* a variant of NextLastLsn without the test wal_end_lsn != 0
NextLastLsn_NoZeroTest(saved, wal_end_lsn, cur) ==
  IF saved THEN wal_end_lsn ELSE cur

\* a variant of NextLastLsn that advances last_lsn on every appended event
NextLastLsn_AnyAppend(saved, wal_end_lsn, cur) ==
  IF wal_end_lsn # 0 THEN wal_end_lsn ELSE cur

\* main.rs:184-187 (and the same lines of the other arms)
NextLastLsn(saved, wal_end_lsn, cur) ==
  IF saved /\ wal_end_lsn # 0 THEN wal_end_lsn ELSE cur

\* a variant of XLogDataSkip that calls stop_skipping_events at every message
\* it drops
XLogDataSkip_StopsAtAny ==
  /\ pc = "stream"
  /\ ignored_msg' = ""
  /\ pos <= Len(wal)
  /\ should_skip(resumption_data, wal[pos].wal_end, wal[pos].kind)
  /\ resumption_data' = stop_skipping_events(resumption_data)
  /\ pos' = pos + 1
  /\ sink_ops' = <<>>
  /\ UNCHANGED <<bucket, wal, schemas, removed, drained, copied_at, pc, runs, consistent_point, ti, rows, rows_total,
                 row_count, data_chunk_count, data_chunk_buf, last_lsn, status_update>>

\* a variant of XLogDataSkip that never calls stop_skipping_events
XLogDataSkip_NeverStops ==
  /\ pc = "stream"
  /\ ignored_msg' = ""
  /\ pos <= Len(wal)
  /\ should_skip(resumption_data, wal[pos].wal_end, wal[pos].kind)
  /\ pos' = pos + 1
  /\ sink_ops' = <<>>
  /\ UNCHANGED <<bucket, wal, schemas, removed, drained, copied_at, pc, runs, resumption_data, consistent_point, ti,
                 rows, rows_total, row_count, data_chunk_count, data_chunk_buf, last_lsn,
                 status_update>>

\* a variant of XLogDataSkip without the `continue`: the message the resume
\* filter names is appended like any other
XLogDataSkip_AppendsEvent ==
  /\ pc = "stream"
  /\ ignored_msg' = ""
  /\ pos <= Len(wal)
  /\ should_skip(resumption_data, wal[pos].wal_end, wal[pos].kind)
  /\ NeedsSchema(wal[pos].kind) => wal[pos].rel_id \in rel_id_to_schema
  /\ LET m == wal[pos]
         buf == Append(data_chunk_buf,
                       event_to_cbor(m.kind, EventRelation(m), m.wal_end, pos))
         r == try_save_data_chunk(row_count, data_chunk_count, buf,
                                  REALTIME_CHANGES_PATH_PREFIX)
     IN /\ row_count' = r.row_count
        /\ data_chunk_count' = r.data_chunk_count
        /\ data_chunk_buf' = r.data_chunk_buf
        /\ bucket' = IF r.save THEN PutObject(bucket, r.path, buf) ELSE bucket
        /\ sink_ops' = IF r.save THEN <<PutOp(r.path)>> ELSE <<>>
        /\ last_lsn' = NextLastLsn(r.save, m.wal_end, last_lsn)
        /\ pos' = pos + 1
  /\ UNCHANGED <<wal, schemas, removed, drained, copied_at, pc, runs, resumption_data, consistent_point, ti, rows,
                 rows_total, status_update>>

\* main.rs:163-165, 190-193, 219-221, 256-258, 292-294, 328-330: the message
\* is dropped by the resume filter; a dropped Commit stops the skipping
XLogDataSkip ==
  /\ pc = "stream"
  /\ ignored_msg' = ""
  /\ pos <= Len(wal)
  /\ should_skip(resumption_data, wal[pos].wal_end, wal[pos].kind)
  /\ resumption_data' = IF wal[pos].kind = "Commit"
                        THEN stop_skipping_events(resumption_data)
                        ELSE resumption_data
  /\ pos' = pos + 1
  /\ sink_ops' = <<>>
  /\ UNCHANGED <<bucket, wal, schemas, removed, drained, copied_at, pc, runs, consistent_point, ti, rows, rows_total,
                 row_count, data_chunk_count, data_chunk_buf, last_lsn, status_update>>

\* main.rs:166-188 and the like arms: the event is appended, and the chunk is
\* put when it is full; ok says whether that put succeeds
XLogData(ok) ==
  /\ pc = "stream"
  /\ ignored_msg' = ""
  /\ pos <= Len(wal)
  /\ ~should_skip(resumption_data, wal[pos].wal_end, wal[pos].kind)
  /\ NeedsSchema(wal[pos].kind) => wal[pos].rel_id \in rel_id_to_schema
  /\ LET m == wal[pos]
         buf == Append(data_chunk_buf,
                       event_to_cbor(m.kind, EventRelation(m), m.wal_end, pos))
         r == try_save_data_chunk(row_count, data_chunk_count, buf,
                                  REALTIME_CHANGES_PATH_PREFIX)
     IN IF r.save /\ ~ok
        THEN /\ pc' = "failed"
             /\ row_count' = row_count + 1
             /\ data_chunk_count' = data_chunk_count + 1
             /\ data_chunk_buf' = buf
             /\ sink_ops' = <<>>
             /\ UNCHANGED <<bucket, last_lsn, pos>>
        ELSE /\ ok
             /\ pc' = pc
             /\ row_count' = r.row_count
             /\ data_chunk_count' = r.data_chunk_count
             /\ data_chunk_buf' = r.data_chunk_buf
             /\ bucket' = IF r.save THEN PutObject(bucket, r.path, buf) ELSE bucket
             /\ sink_ops' = IF r.save THEN <<PutOp(r.path)>> ELSE <<>>
             /\ last_lsn' = NextLastLsn(r.save, m.wal_end, last_lsn)
             /\ pos' = pos + 1
  /\ UNCHANGED <<wal, schemas, removed, drained, copied_at, runs, resumption_data, consistent_point, ti, rows,
                 rows_total, status_update>>

\* a variant of RelationIdNotFound that drops the message and goes on
RelationIdNotFound_DropsMessage ==
  /\ pc = "stream"
  /\ ignored_msg' = ""
  /\ pos <= Len(wal)
  /\ ~should_skip(resumption_data, wal[pos].wal_end, wal[pos].kind)
  /\ NeedsSchema(wal[pos].kind)
  /\ wal[pos].rel_id \notin rel_id_to_schema
  /\ pos' = pos + 1
  /\ sink_ops' = <<>>
  /\ UNCHANGED <<bucket, wal, schemas, removed, drained, copied_at, pc, runs, resumption_data,
                 consistent_point, ti, rows, rows_total, row_count, data_chunk_count,
                 data_chunk_buf, last_lsn, status_update>>

\* a variant of RelationIdNotFound that looks the relation up before the
\* resume filter is asked
RelationIdNotFound_BeforeSkip ==
  /\ pc = "stream"
  /\ ignored_msg' = ""
  /\ pos <= Len(wal)
  /\ NeedsSchema(wal[pos].kind)
  /\ wal[pos].rel_id \notin rel_id_to_schema
  /\ pc' = "failed"
  /\ sink_ops' = <<>>
  /\ UNCHANGED <<bucket, wal, schemas, removed, drained, copied_at, runs, resumption_data,
                 consistent_point, ti, rows, rows_total, row_count, data_chunk_count,
                 data_chunk_buf, last_lsn, pos, status_update>>

\* main.rs:247-251, 284-288, 320-324, 360-364: rel_id_to_schema has no entry
\* for the relation of a message that is not skipped
RelationIdNotFound ==
  /\ pc = "stream"
  /\ ignored_msg' = ""
  /\ pos <= Len(wal)
  /\ ~should_skip(resumption_data, wal[pos].wal_end, wal[pos].kind)
  /\ NeedsSchema(wal[pos].kind)
  /\ wal[pos].rel_id \notin rel_id_to_schema
  /\ pc' = "failed"
  /\ sink_ops' = <<>>
  /\ UNCHANGED <<bucket, wal, schemas, removed, drained, copied_at, runs, resumption_data,
                 consistent_point, ti, rows, rows_total, row_count, data_chunk_count,
                 data_chunk_buf, last_lsn, pos, status_update>>

\* the kinds of XLogData message that have an empty arm
IgnoredKinds == {"Origin", "Type", "Truncate"}

\* the upstream logs between whose messages upstream also sends Origin, Type
\* and Truncate messages and keepalives that ask for no reply
WalsWithIgnored == {MakeWal(MaxTxnChanges, FALSE, "strict"), MakeWal(1, TRUE, "txn")}

\* a variant of XLogDataIgnored that counts the message as a row of the chunk
XLogDataIgnored_CountsRow ==
  /\ pc = "stream"
  /\ wal \in WalsWithIgnored
  /\ \E kind \in IgnoredKinds : ignored_msg' = kind
  /\ row_count' = row_count + 1
  /\ sink_ops' = <<>>
  /\ UNCHANGED <<bucket, wal, schemas, removed, drained, copied_at, pc, runs, resumption_data, consistent_point, ti,
                 rows, rows_total, data_chunk_count, data_chunk_buf, last_lsn,
                 pos, status_update>>

\* main.rs:217, 254, 367: an Origin, Type or Truncate message (which upstream
\* sends between the messages of wal) is taken and nothing is done
XLogDataIgnored ==
  /\ pc = "stream"
  /\ wal \in WalsWithIgnored
  /\ \E kind \in IgnoredKinds : ignored_msg' = kind
  /\ sink_ops' = <<>>
  /\ UNCHANGED <<bucket, wal, schemas, removed, drained, copied_at, pc, runs, resumption_data, consistent_point, ti,
                 rows, rows_total, row_count, data_chunk_count, data_chunk_buf, last_lsn,
                 pos, status_update>>

\* main.rs:378-382: the LSNs and the reply flag of the status update that is
\* sent (its timestamp is left out)
standby_status_update(write_lsn, flush_lsn, apply_lsn, reply) ==
  [write_lsn |-> write_lsn, flush_lsn |-> flush_lsn, apply_lsn |-> apply_lsn,
   reply |-> reply]

\* a variant of PrimaryKeepAlive that asks upstream for a reply
PrimaryKeepAlive_AsksReply(reply) ==
  /\ pc = "stream"
  /\ reply = 0 => wal \in WalsWithIgnored
  /\ ignored_msg' = IF reply = 0 THEN "PrimaryKeepAlive" ELSE ""
  /\ status_update' = IF reply = 1
                      THEN Some(standby_status_update(last_lsn, last_lsn, last_lsn, 1))
                      ELSE status_update
  /\ sink_ops' = <<>>
  /\ UNCHANGED <<bucket, wal, schemas, removed, drained, copied_at, pc, runs, resumption_data, consistent_point, ti,
                 rows, rows_total, row_count, data_chunk_count, data_chunk_buf, last_lsn,
                 pos>>

\* main.rs:375-383; a keepalive that asks for no reply is one of the messages
\* of WalsWithIgnored
PrimaryKeepAlive(reply) ==
  /\ pc = "stream"
  /\ reply = 0 => wal \in WalsWithIgnored
  /\ ignored_msg' = IF reply = 0 THEN "PrimaryKeepAlive" ELSE ""
  /\ status_update' = IF reply = 1
                      THEN Some(standby_status_update(last_lsn, last_lsn, last_lsn, 0))
                      ELSE status_update
  /\ sink_ops' = <<>>
  /\ UNCHANGED <<bucket, wal, schemas, removed, drained, copied_at, pc, runs, resumption_data, consistent_point, ti,
                 rows, rows_total, row_count, data_chunk_count, data_chunk_buf, last_lsn,
                 pos>>

\* main.rs:157 and 388: upstream closes the stream and main returns Ok; the
\* locals are dropped, the buffer with them
StreamEnd ==
  /\ pc = "stream"
  /\ ignored_msg' = ""
  /\ pc' = "finished"
  /\ Stopped
  /\ drained' = (drained \/ pos > Len(wal))
  /\ sink_ops' = <<>>
  /\ UNCHANGED <<bucket, wal, schemas, removed, runs, copied_at>>

(***************************************************************************)
(* The operator: removes the done marker of a table while the process is   *)
(* not running (specification, section 8, property 7)                      *)
(***************************************************************************)
RemoveDoneMarker ==
  /\ pc \in {"stopped", "failed", "finished"}
  /\ ignored_msg' = ""
  /\ runs < MaxRuns
  /\ \E i \in 1..Len(schemas) :
        /\ get_done_object_path(schemas[i].table) \in DOMAIN bucket
        /\ bucket' = DeleteObjects(bucket, {get_done_object_path(schemas[i].table)})
        /\ removed' = IF \A j \in 1..Len(schemas) :
                            get_done_object_path(schemas[j].table) \in DOMAIN bucket
                      THEN i ELSE 0
  /\ pc' = "stopped"
  /\ Stopped
  /\ sink_ops' = <<>>
  /\ UNCHANGED <<wal, schemas, runs, drained, copied_at>>

Next ==
  \/ Start
  \/ Crash
  \/ TableCopyDone
  \/ TableCopyDoneServerError
  \/ TableCopyDoneNoResponse
  \/ delete_partial_table_copy
  \/ copy_table
  \/ \E ok \in BOOLEAN : CopyRow(ok)
  \/ CopyRowError
  \/ \E ok \in BOOLEAN : CopyTableLastChunk(ok)
  \/ \E ok \in BOOLEAN : mark_table_copy_done(ok)
  \/ start_replication_slot
  \/ XLogDataSkip
  \/ \E ok \in BOOLEAN : XLogData(ok)
  \/ RelationIdNotFound
  \/ XLogDataIgnored
  \/ \E reply \in {0, 1} : PrimaryKeepAlive(reply)
  \/ StreamEnd
  \/ RemoveDoneMarker

Spec == Init /\ [][Next]_vars

SpecPositiveLsn == InitPositiveLsn /\ [][Next]_vars

(***************************************************************************)
(* Resumption on the bytes of the last stream chunk: main.rs:511-555 with  *)
(* the framing of main.rs:847-851.  An object is a sequence of bytes: the  *)
(* 8 bytes of a length prefix are numbers, and byte j of the CBOR encoding *)
(* of event e is the pair <<e, j>>.                                        *)
(***************************************************************************)
\* serde_cbor::to_writer (main.rs:848): the bytes of the encoding of an event
EventBytes(event) == [j \in 1..EventLen |-> <<event, j>>]

\* usize::to_be_bytes (main.rs:849)
RECURSIVE BeBytes(_, _)
BeBytes(n, k) == IF k = 0 THEN <<>> ELSE BeBytes(n \div 256, k - 1) \o <<n % 256>>

to_be_bytes(n) == BeBytes(n, 8)

\* usize::from_be_bytes (main.rs:537)
RECURSIVE from_be_bytes(_)
from_be_bytes(b) ==
  IF b = <<>> THEN 0
  ELSE 256 * from_be_bytes(SubSeq(b, 1, Len(b) - 1)) + b[Len(b)]

\* main.rs:847-851: the length prefix, then the encoding
Frame(event) == to_be_bytes(Len(EventBytes(event))) \o EventBytes(event)

RECURSIVE FrameAll(_)
FrameAll(events) ==
  IF events = <<>> THEN <<>>
  ELSE Frame(events[1]) \o FrameAll(SubSeq(events, 2, Len(events)))

\* main.rs:535-546: the loop; &v[start..start + 8] panics when the slice ends
\* after the end of v
RECURSIVE ParseLoop(_, _)
ParseLoop(v, start) ==
  IF start + 8 > Len(v) THEN [status |-> "panic", v |-> <<>>]
  ELSE LET size == from_be_bytes(SubSeq(v, start + 1, start + 8))
           new_start == start + 8 + size
       IN IF Len(v) <= new_start
          THEN [status |-> "ok", v |-> SubSeq(v, start + 8 + 1, Len(v))]
          ELSE ParseLoop(v, new_start)

\* a variant of from_reader that takes the first bytes of an encoding for the
\* whole of it
from_reader_AcceptsPrefix(v) ==
  IF v # <<>>
  THEN [status |-> "ok", event |-> v[1][1]]
  ELSE [status |-> "error", event |-> <<>>]

\* serde_cbor::from_reader (main.rs:548): the bytes must be the whole encoding
\* of one event
from_reader(v) ==
  IF v # <<>> /\ v = EventBytes(v[1][1])
  THEN [status |-> "ok", event |-> v[1][1]]
  ELSE [status |-> "error", event |-> <<>>]

\* main.rs:511-555 on the bytes of the object
ResumptionFromBytes ==
  LET last_file_name == largest_realtime_file_number[1]
      v == bucket[REALTIME_CHANGES_PREFIX \o FormatU32(last_file_name)]
      l == ParseLoop(v, 0)
      d == from_reader(l.v)
  IN IF largest_realtime_file_number = None THEN [status |-> "ok", data |-> None]
     ELSE IF l.status # "ok" THEN [status |-> l.status, data |-> None]
     ELSE IF d.status # "ok" THEN [status |-> d.status, data |-> None]
     ELSE [status |-> "ok",
           data |-> Some([resume_lsn |-> d.event.last_lsn,
                          last_event_type |-> d.event.event_type,
                          last_file_name |-> last_file_name,
                          skipping_events |-> d.event.event_type # "Commit"])]

\* the events of the objects, and the objects: whole records, then the first
\* t bytes of one more record (a put that did not finish)
SampleEvents ==
  {event_to_cbor(k, None, lsn, 0) : k \in {"Begin", "Commit"}, lsn \in 1..2}
    \cup {event_to_cbor("Insert", Some(1), lsn, 0) : lsn \in 1..2}

SampleRecords == UNION {[1..n -> SampleEvents] : n \in 1..MaxTornRecords}

TornObjects ==
  {FrameAll(es) \o SubSeq(Frame(e), 1, t) :
     es \in SampleRecords, e \in SampleEvents, t \in 0..(8 + EventLen - 1)}

\* the objects that hold no whole record: nothing, or the first t bytes of a
\* first record
ZeroRecordObjects ==
  {SubSeq(Frame(e), 1, t) : e \in SampleEvents, t \in 0..(8 + EventLen - 1)}

\* the numbers of stream chunks in the bucket when the process starts
SampleChunkCounts == {0, 1, 2, 9, 10, 11}

\* the bucket when a run starts: the table is copied, the stream chunks are
\* 1..n, and the last of them is one of TornObjects
BucketAtStart(n, bytes) ==
  [k \in {get_done_object_path(DefaultTables[1].table)}
            \cup {ChunkPath(REALTIME_CHANGES_PATH_PREFIX, i) : i \in 1..n} |->
     IF k = ChunkPath(REALTIME_CHANGES_PATH_PREFIX, n) THEN bytes
     ELSE IF k = get_done_object_path(DefaultTables[1].table) THEN <<>>
     ELSE FrameAll(<<event_to_cbor("Commit", None, 1, 0)>>)]

InitTornTail ==
  /\ \E n \in SampleChunkCounts, bytes \in TornObjects \cup ZeroRecordObjects :
        bucket = BucketAtStart(n, bytes)
  /\ wal = DefaultWal
  /\ schemas = DefaultTables
  /\ pc = "stopped"
  /\ runs = 0
  /\ resumption_data = None
  /\ consistent_point = 0
  /\ ti = 0
  /\ rows = 0
  /\ rows_total = 0
  /\ row_count = 0
  /\ data_chunk_count = 0
  /\ data_chunk_buf = <<>>
  /\ last_lsn = 0
  /\ pos = 0
  /\ status_update = None
  /\ sink_ops = <<>>
  /\ removed = 0
  /\ drained = FALSE
  /\ copied_at = [i \in 1..Len(schemas) |-> 0]
  /\ ignored_msg = ""

\* main.rs:96-108: the hint is read and handed to ReplicationClient::new; a
\* panic or an error ends the process
StartFromBytes ==
  /\ pc = "stopped"
  /\ ignored_msg' = ""
  /\ runs = 0
  /\ runs' = 1
  /\ LET r == ResumptionFromBytes
     IN IF r.status = "ok"
        THEN /\ resumption_data' = r.data
             /\ consistent_point' = NewConsistentPoint(r.data)
             /\ ti' = 1
             /\ pc' = "tables"
        ELSE /\ pc' = "failed"
             /\ UNCHANGED <<resumption_data, consistent_point, ti>>
  /\ sink_ops' = <<>>
  /\ UNCHANGED <<bucket, wal, schemas, removed, drained, copied_at, rows, rows_total, row_count,
                 data_chunk_count, data_chunk_buf, last_lsn, pos, status_update>>

\* the start of a run up to the set-up of the stream copier
NextTornTail ==
  \/ StartFromBytes
  \/ TableCopyDone
  \/ start_replication_slot

SpecTornTail == InitTornTail /\ [][NextTornTail]_vars

(***************************************************************************)
(* What the claims speak of                                                *)
(***************************************************************************)
Range(f) == {f[i] : i \in DOMAIN f}

StreamKeys == list_objects(REALTIME_CHANGES_PREFIX)
StreamNumbers == {ParseU32(StripPrefix(k, REALTIME_CHANGES_PREFIX)) : k \in StreamKeys}
StreamChunk(n) == bucket[ChunkPath(REALTIME_CHANGES_PATH_PREFIX, n)]

\* the records that are durable in stream chunks
DurableRecords == UNION {Range(bucket[k]) : k \in StreamKeys}

\* the largest last_lsn that is durable in a stream chunk (0 when there is none)
MaxDurableLsn == SetMax({0} \cup {e.last_lsn : e \in DurableRecords})

\* the step puts a stream chunk
PutsStreamChunk ==
  /\ sink_ops' # <<>>
  /\ sink_ops'[1].op = "put"
  /\ \E k \in sink_ops'[1].keys : StartsWith(k, REALTIME_CHANGES_PREFIX)

(***************************************************************************)
(* C1: every LSN passed to standby_status_update is at most the largest    *)
(* last_lsn of the records already durable in stream chunks, in a fresh    *)
(* run too.                                                                *)
(***************************************************************************)
C1_AckWithinDurable ==
  status_update # None => status_update[1].flush_lsn <= MaxDurableLsn

(* C1 as amended: an acknowledged LSN is the consistent_point that last_lsn *)
(* started from, or is at most the largest durable last_lsn; and an event   *)
(* that is only in the buffer, with an LSN above every durable one and      *)
(* above the consistent_point, is not covered.                              *)
C1_AckDurableOrConsistentPoint ==
  status_update # None =>
    /\ \/ status_update[1].flush_lsn = consistent_point
       \/ status_update[1].flush_lsn <= MaxDurableLsn
    /\ \A i \in 1..Len(data_chunk_buf) :
         (data_chunk_buf[i].last_lsn > MaxDurableLsn
            /\ data_chunk_buf[i].last_lsn > consistent_point)
           => status_update[1].flush_lsn < data_chunk_buf[i].last_lsn

\* an acknowledgement sent after a flush of this run, with events in the buffer
C1_Witness ==
  /\ pc = "stream"
  /\ status_update # None
  /\ status_update[1].flush_lsn # consistent_point
  /\ data_chunk_buf # <<>>

\* the stream chunks' records, in ascending chunk number
RECURSIVE ConcatChunks(_)
ConcatChunks(ns) ==
  IF ns = {} THEN <<>>
  ELSE LET n == SetMax(ns) IN ConcatChunks(ns \ {n}) \o StreamChunk(n)

StreamLog == ConcatChunks(StreamNumbers)

(***************************************************************************)
(* C2: after any crashes and restarts the stream chunks, read in ascending *)
(* chunk number, hold the upstream messages in upstream order, none twice, *)
(* and every upstream Commit before the last recorded message is there.    *)
(***************************************************************************)
C2_PrefixEquivalent ==
  LET log == StreamLog
  IN /\ \A i \in 1..(Len(log) - 1) : log[i].src < log[i + 1].src
     /\ \A j \in 1..Len(wal) :
          (wal[j].kind = "Commit" /\ log # <<>> /\ j < log[Len(log)].src)
            => \E i \in 1..Len(log) : log[i].src = j

\* a step of the stream copier that takes the message wal[pos] off the stream
TakesMessage == pc = "stream" /\ pos' = pos + 1

\* the step appends an event for wal[pos] to the chunk buffer (and may flush)
AppendsEvent ==
  \/ /\ Len(data_chunk_buf') = Len(data_chunk_buf) + 1
     /\ SubSeq(data_chunk_buf', 1, Len(data_chunk_buf)) = data_chunk_buf
     /\ data_chunk_buf'[Len(data_chunk_buf')].src = pos
     /\ bucket' = bucket
  \/ /\ PutsStreamChunk
     /\ \E k \in sink_ops'[1].keys :
          /\ SubSeq(bucket'[k], 1, Len(bucket'[k]) - 1) = data_chunk_buf
          /\ LastRecord(bucket'[k]).src = pos

\* the step leaves the buffer and the bucket as they are
DropsEvent == data_chunk_buf' = data_chunk_buf /\ bucket' = bucket

\* the last record of the largest-numbered stream chunk
LastDurable == LastRecord(StreamChunk(SetMax(StreamNumbers)))

(***************************************************************************)
(* C3: when the last record of the largest stream chunk is no Commit and   *)
(* has LSN L, the next run starts with skipping_events = true and drops    *)
(* every message with LSN <= L; a Commit that is dropped stops the         *)
(* skipping, and after that no message is dropped.                         *)
(***************************************************************************)
C3_SkipUntilCommit ==
  [][/\ (runs' = runs + 1 /\ StreamNumbers # {}
          /\ LastDurable.event_type # "Commit")
        => /\ resumption_data' # None
           /\ resumption_data'[1].skipping_events
           /\ resumption_data'[1].resume_lsn = LastDurable.last_lsn
     /\ (TakesMessage /\ resumption_data # None
          /\ resumption_data[1].last_event_type # "Commit")
        => IF resumption_data[1].skipping_events
           THEN /\ wal[pos].wal_end <= resumption_data[1].resume_lsn => DropsEvent
                /\ (wal[pos].wal_end <= resumption_data[1].resume_lsn
                       /\ wal[pos].kind = "Commit")
                     => ~resumption_data'[1].skipping_events
                /\ (wal[pos].wal_end > resumption_data[1].resume_lsn
                       \/ wal[pos].kind # "Commit")
                     => resumption_data' = resumption_data
           ELSE AppendsEvent /\ resumption_data' = resumption_data
    ]_vars

\* a run resumed after a record that is no Commit has dropped a Commit, has
\* stopped skipping and has appended the messages that followed
C3_Witness ==
  /\ pc = "stream"
  /\ resumption_data # None
  /\ resumption_data[1].last_event_type # "Commit"
  /\ ~resumption_data[1].skipping_events
  /\ data_chunk_buf # <<>>

\* the records this run has written or holds: the chunks above last_file_name, then the buffer
RunLog ==
  ConcatChunks({n \in StreamNumbers : n > resumption_data[1].last_file_name})
    \o data_chunk_buf

(***************************************************************************)
(* C4: when the last record of the largest stream chunk is a Commit at L,  *)
(* the next run starts with skipping_events = false, appends no message    *)
(* with LSN <= L again and appends every message with LSN > L; what it     *)
(* writes are the messages after that Commit, each once and in order.      *)
(***************************************************************************)
C4_CommitIsLowerBound ==
  [][/\ (runs' = runs + 1 /\ StreamNumbers # {}
          /\ LastDurable.event_type = "Commit")
        => /\ resumption_data' # None
           /\ ~resumption_data'[1].skipping_events
           /\ resumption_data'[1].resume_lsn = LastDurable.last_lsn
     /\ (TakesMessage /\ resumption_data # None
          /\ resumption_data[1].last_event_type = "Commit")
        => /\ ~resumption_data[1].skipping_events
           /\ IF wal[pos].wal_end <= resumption_data[1].resume_lsn
              THEN DropsEvent ELSE AppendsEvent
           /\ LET base == LastRecord(StreamChunk(resumption_data[1].last_file_name)).src
                  log == RunLog'
              IN \A i \in 1..Len(log) : log[i].src = base + i
    ]_vars

\* a run resumed after a Commit has dropped messages and has written a chunk
C4_Witness ==
  /\ pc = "stream"
  /\ resumption_data # None
  /\ resumption_data[1].last_event_type = "Commit"
  /\ SetMax(StreamNumbers) > resumption_data[1].last_file_name
  /\ data_chunk_buf # <<>>

(***************************************************************************)
(* C5: in the stream copier last_lsn changes only in a step that puts a    *)
(* stream chunk with success, and then becomes the wal_end of the message  *)
(* whose append filled the chunk, unless that wal_end is 0; every other    *)
(* step of the copier (an append that does not fill the chunk, a failed    *)
(* put, a skipped message, a keepalive) leaves last_lsn as it is.          *)
(***************************************************************************)
C5_LastLsnOnlyOnFlush ==
  [][(pc = "stream" /\ pc' \in {"stream", "failed"})
       => IF PutsStreamChunk
          THEN last_lsn' = IF wal[pos].wal_end # 0 THEN wal[pos].wal_end ELSE last_lsn
          ELSE last_lsn' = last_lsn
    ]_vars

\* a flush has advanced last_lsn to the LSN of the last record of the chunk
C5_Witness ==
  /\ pc = "stream"
  /\ StreamNumbers # {}
  /\ last_lsn # consistent_point
  /\ last_lsn = LastDurable.last_lsn

\* the numbers of the stream chunks a step puts
PutStreamNumbers ==
  {ParseU32(StripPrefix(k, REALTIME_CHANGES_PREFIX)) :
     k \in {x \in sink_ops'[1].keys : StartsWith(x, REALTIME_CHANGES_PREFIX)}}

(***************************************************************************)
(* C6: a stream chunk is put under a number that is larger than that of    *)
(* every stream chunk in the bucket, so no key is written twice; the       *)
(* number is the chunk counter plus one, and the counter of a run starts   *)
(* at the largest number in the bucket, at 0 when there is none.           *)
(***************************************************************************)
C6_StreamKeysAscending ==
  [][/\ PutsStreamChunk
        => \A n \in PutStreamNumbers :
             /\ n = data_chunk_count + 1
             /\ data_chunk_count' = n
             /\ \A m \in StreamNumbers : m < n
     /\ (pc = "tables" /\ pc' = "stream")
        => data_chunk_count' = SetMax(StreamNumbers \cup {0})
    ]_vars

\* a resumed run has put a chunk above the ones it found
C6_Witness ==
  /\ pc = "stream"
  /\ runs > 1
  /\ resumption_data # None
  /\ sink_ops # <<>>
  /\ SetMax(StreamNumbers) = resumption_data[1].last_file_name + 1

\* the keys of the chunk objects a step puts (the done markers are no chunks)
PutChunkKeys ==
  IF sink_ops' # <<>> /\ sink_ops'[1].op = "put"
  THEN {k \in sink_ops'[1].keys :
          \A i \in 1..Len(schemas) : k # get_done_object_path(schemas[i].table)}
  ELSE {}

(***************************************************************************)
(* C7: every chunk that is put holds exactly ROWS_PER_DATA_CHUNK events,   *)
(* but the last chunk of a table copy, which holds at least one and may    *)
(* hold fewer; no stream chunk of another length is put, and the end of    *)
(* the stream, a crash and a restart put nothing.                          *)
(***************************************************************************)
C7_ChunkLength ==
  [][/\ \A k \in PutChunkKeys :
          \/ Len(bucket'[k]) = ROWS_PER_DATA_CHUNK
          \/ /\ pc = "copy_rows" /\ rows = 0
             /\ ~StartsWith(k, REALTIME_CHANGES_PREFIX)
             /\ Len(bucket'[k]) >= 1
             /\ Len(bucket'[k]) < ROWS_PER_DATA_CHUNK
     /\ (pc' \in {"stopped", "finished", "failed"} \/ runs' # runs)
        => \A k \in DOMAIN bucket' : k \in DOMAIN bucket /\ bucket'[k] = bucket[k]
    ]_vars

\* the bucket holds a short last chunk of a table and a stream chunk, and a
\* later run has events in its buffer
C7_Witness ==
  /\ StreamNumbers # {}
  /\ \E k \in DOMAIN bucket :
       ~StartsWith(k, REALTIME_CHANGES_PREFIX) /\ Len(bucket[k]) \in 1..(ROWS_PER_DATA_CHUNK - 1)
  /\ pc = "stream"
  /\ runs > 1
  /\ data_chunk_buf # <<>>

\* the keys under the prefix of a table, and the numbers of its chunks
TableKeys(table) == list_objects(TablePathPrefix(table) \o <<"/">>)

TableChunkNumbers(table) ==
  {ParseU32(StripPrefix(k, TablePathPrefix(table) \o <<"/">>)) : k \in TableKeys(table)}
    \ {-1}

\* the events of a table's chunks, in ascending chunk number
RECURSIVE ConcatTable(_, _)
ConcatTable(table, ns) ==
  IF ns = {} THEN <<>>
  ELSE LET n == SetMax(ns)
       IN ConcatTable(table, ns \ {n}) \o bucket[ChunkPath(TablePathPrefix(table), n)]

\* the step puts the done marker of table
PutsDone(table) ==
  /\ sink_ops' # <<>>
  /\ sink_ops'[1].op = "put"
  /\ get_done_object_path(table) \in sink_ops'[1].keys

(***************************************************************************)
(* C8: copy_table puts the chunks of a table under 1, 2, ... in that       *)
(* order; the done marker of a table is put only when every chunk of the   *)
(* copy has been put with success (the chunks 1..data_chunk_count hold the *)
(* Schema event and every row); and a copy that ends by a failed put, a    *)
(* failed row read or a crash leaves the table without a done marker.      *)
(***************************************************************************)
C8_DoneAfterAllChunks ==
  [][/\ \A k \in PutChunkKeys :
          ~StartsWith(k, REALTIME_CHANGES_PREFIX)
            => /\ pc = "copy_rows"
               /\ k = ChunkPath(TablePathPrefix(schemas[ti].table), data_chunk_count + 1)
               /\ TableChunkNumbers(schemas[ti].table) = 1..data_chunk_count
     /\ \A i \in 1..Len(schemas) :
          PutsDone(schemas[i].table)
            => /\ pc = "mark_done"
               /\ i = ti
               /\ data_chunk_count >= 1
               /\ TableChunkNumbers(schemas[i].table) = 1..data_chunk_count
               /\ Len(ConcatTable(schemas[i].table, 1..data_chunk_count)) = rows_total + 1
     /\ (pc \in {"copy_table", "copy_rows", "mark_done"} /\ pc' \in {"failed", "stopped"})
          => get_done_object_path(schemas[ti].table) \notin DOMAIN bucket'
    ]_vars

\* the done marker of a table has just been put, after two chunks
C8_Witness ==
  /\ sink_ops # <<>>
  /\ sink_ops[1].op = "put"
  /\ \E i \in 1..Len(schemas) :
       /\ get_done_object_path(schemas[i].table) \in sink_ops[1].keys
       /\ TableChunkNumbers(schemas[i].table) = {1, 2}

(***************************************************************************)
(* C9: a table that has its done marker has the chunks 1..k for some       *)
(* k >= 1 and no other key under its prefix, and these chunks hold one     *)
(* copy: the Schema event and then the rows in order, with no chunk left   *)
(* over from an earlier attempt.                                           *)
(***************************************************************************)
C9_DoneTableIsWhole ==
  \A i \in 1..Len(schemas) :
    get_done_object_path(schemas[i].table) \in DOMAIN bucket
      => LET table == schemas[i].table
             ns == TableChunkNumbers(table)
             log == ConcatTable(table, ns)
         IN /\ ns # {}
            /\ ns = 1..Cardinality(ns)
            /\ Cardinality(TableKeys(table)) = Cardinality(ns) + 1
            /\ log[1].event_type = "Schema"
            /\ \A j \in 2..Len(log) : log[j].event_type = "Insert" /\ log[j].src = j - 1
            /\ \A n \in ns : n < Cardinality(ns)
                 => Len(bucket[ChunkPath(TablePathPrefix(table), n)]) = ROWS_PER_DATA_CHUNK

\* a later run has redone the copy of a table and has put its done marker
C9_Witness ==
  /\ runs > 1
  /\ pc = "tables"
  /\ sink_ops # <<>>
  /\ sink_ops[1].op = "put"
  /\ \E i \in 1..Len(schemas) :
       /\ get_done_object_path(schemas[i].table) \in sink_ops[1].keys
       /\ TableChunkNumbers(schemas[i].table) = {1}

\* the objects of the table with index i
ObjectsOf(i) == [k \in TableKeys(schemas[i].table) |-> bucket[k]]

(***************************************************************************)
(* C10: when the done marker of one table T has been removed (every table  *)
(* had its marker) and the process runs again, no object of another table  *)
(* is deleted or written, whatever the names of the tables are, and no     *)
(* stream chunk that exists is deleted or written again.                   *)
(***************************************************************************)
C10_OnlyThatTable ==
  [][(removed # 0 /\ (runs' # runs \/ pc \notin {"stopped", "failed", "finished"}))
       => /\ \A i \in 1..Len(schemas) : i # removed => ObjectsOf(i)' = ObjectsOf(i)
          /\ \A k \in StreamKeys : k \in DOMAIN bucket' /\ bucket'[k] = bucket[k]
    ]_vars

\* a step of the process (the operator's removal of a done marker is none)
ProcessStep == runs' # runs \/ pc \notin {"stopped", "failed", "finished"}

\* every published table has its done marker
AllTablesDone ==
  \A i \in 1..Len(schemas) : get_done_object_path(schemas[i].table) \in DOMAIN bucket

StreamChangesOf(i) ==
  {e \in DurableRecords : /\ e.event_type \in Range(ChangeKinds)
                          /\ e.relation_id = Some(schemas[i].relation_id)}

(***************************************************************************)
(* C12: the chunks of a table's copy are read at a consistent point that   *)
(* is below the LSN of every change of that table recorded in the stream   *)
(* chunks, also when the copy is redone while stream chunks exist; so no   *)
(* change is both in the table's copy and in the stream chunks.            *)
(***************************************************************************)
C12_SnapshotBeforeStream ==
  \A i \in 1..Len(schemas) :
    copied_at[i] # 0 => \A e \in StreamChangesOf(i) : e.last_lsn > copied_at[i]

\* parse_last of the specification: the last record that is whole, scanning
\* the length-prefixed records from the front; None when there is none
RECURSIVE parse_last(_, _)
parse_last(bytes, last) ==
  IF Len(bytes) < 8 THEN last
  ELSE LET size == from_be_bytes(SubSeq(bytes, 1, 8))
       IN IF Len(bytes) < 8 + size THEN last
          ELSE parse_last(SubSeq(bytes, 8 + size + 1, Len(bytes)),
                          Some(SubSeq(bytes, 9, 8 + size)[1][1]))

\* the bytes of the largest-numbered stream chunk
LastObject == bucket[REALTIME_CHANGES_PREFIX \o FormatU32(SetMax(StreamNumbers))]

\* the bytes that are left when the whole records have been scanned
RECURSIVE RestAfterRecords(_)
RestAfterRecords(bytes) ==
  IF Len(bytes) < 8 THEN bytes
  ELSE LET size == from_be_bytes(SubSeq(bytes, 1, 8))
       IN IF Len(bytes) < 8 + size THEN bytes
          ELSE RestAfterRecords(SubSeq(bytes, 8 + size + 1, Len(bytes)))

\* the object is one whole record or more, and then bytes that are no whole record
HasTornTail ==
  /\ StreamNumbers # {}
  /\ parse_last(LastObject, None) # None
  /\ RestAfterRecords(LastObject) # <<>>

(***************************************************************************)
(* C13: when the largest stream chunk is n >= 1 whole records and then     *)
(* bytes that are no whole record, the run goes on with the hint made of   *)
(* the n-th record: the bytes at the end are ignored and are no fatal      *)
(* error.                                                                  *)
(***************************************************************************)
C13_TornTailIgnored ==
  (runs = 1 /\ HasTornTail)
    => /\ pc = "tables"
       /\ resumption_data # None
       /\ LET event == parse_last(LastObject, None)[1]
          IN /\ resumption_data[1].resume_lsn = event.last_lsn
             /\ resumption_data[1].last_event_type = event.event_type

(***************************************************************************)
(* C14: when a run has read the hint, the hint is None if there is no key  *)
(* under realtime_changes/, and the chunk counter of the stream copier     *)
(* then begins at 0; else, with max_n the largest number among the keys    *)
(* (as numbers, not as strings) and E the last record of chunk max_n, the  *)
(* hint is resume_lsn = E.last_lsn, last_event_type = E.event_type,        *)
(* last_file_name = max_n, skipping_events = (E is no Commit), and the     *)
(* counter begins at max_n.  An object of whole records is never a fatal   *)
(* error.                                                                  *)
(***************************************************************************)
C14_HintFromLastRecord ==
  /\ (runs = 1 /\ StreamNumbers # {} /\ parse_last(LastObject, None) # None
        /\ RestAfterRecords(LastObject) = <<>>)
       => pc \in {"tables", "stream"}
  /\ (runs = 1 /\ pc \in {"tables", "stream"})
       => IF StreamKeys = {}
          THEN /\ resumption_data = None
               /\ pc = "stream" => data_chunk_count = 0
          ELSE LET E == parse_last(LastObject, None)[1]
                   max_n == SetMax(StreamNumbers)
               IN /\ parse_last(LastObject, None) # None
                  /\ resumption_data =
                       Some([resume_lsn |-> E.last_lsn,
                             last_event_type |-> E.event_type,
                             last_file_name |-> max_n,
                             skipping_events |-> E.event_type # "Commit"])
                  /\ pc = "stream" => data_chunk_count = max_n

\* the copier is set up from a hint read from chunk 10 of the chunks 1..10
C14_Witness ==
  /\ pc = "stream"
  /\ resumption_data # None
  /\ resumption_data[1].last_file_name = 10
  /\ Cardinality(StreamKeys) = 10

\* the next message of the stream is not skipped and names a relation that is
\* not in the schema map
UnknownRelationNext ==
  /\ pc = "stream"
  /\ pos <= Len(wal)
  /\ ~should_skip(resumption_data, wal[pos].wal_end, wal[pos].kind)
  /\ NeedsSchema(wal[pos].kind)
  /\ wal[pos].rel_id \notin rel_id_to_schema

(***************************************************************************)
(* C15: a Relation, Insert, Update or Delete message that is not skipped   *)
(* and whose relation is not in the schema map is never appended: no step  *)
(* passes it, puts a chunk or changes the bucket, and the step that        *)
(* handles it ends the run with the buffer, the chunk counter and last_lsn *)
(* as they were.                                                           *)
(***************************************************************************)
C15_UnknownRelationIsFatal ==
  [][UnknownRelationNext
       => /\ bucket' = bucket
          /\ sink_ops' = <<>>
          /\ pc' \in {"stream", "failed"}
               => /\ pos' = pos
                  /\ data_chunk_buf' = data_chunk_buf
                  /\ row_count' = row_count
                  /\ data_chunk_count' = data_chunk_count
                  /\ last_lsn' = last_lsn
          /\ pos' # pos => pc' \in {"stopped", "finished"}
    ]_vars

\* a run has ended at such a message, with events in the buffer and a chunk
\* in the bucket
C15_Witness ==
  /\ pc = "failed"
  /\ pos \in 1..Len(wal)
  /\ ~should_skip(resumption_data, wal[pos].wal_end, wal[pos].kind)
  /\ NeedsSchema(wal[pos].kind)
  /\ wal[pos].rel_id \notin rel_id_to_schema
  /\ data_chunk_buf # <<>>
  /\ StreamNumbers # {}

\* a step of the stream copier that sends a status update (one that differs
\* from the last one sent)
SendsStatusUpdate == pc = "stream" /\ pc' = "stream" /\ status_update' # status_update

\* the step is the keepalive arm: one update with last_lsn three times and
\* reply 0, and the copier's locals and the bucket are left as they are
KeepAliveFrame ==
  /\ status_update' = Some([write_lsn |-> last_lsn, flush_lsn |-> last_lsn,
                            apply_lsn |-> last_lsn, reply |-> 0])
  /\ row_count' = row_count
  /\ data_chunk_count' = data_chunk_count
  /\ data_chunk_buf' = data_chunk_buf
  /\ last_lsn' = last_lsn
  /\ pos' = pos
  /\ bucket' = bucket
  /\ sink_ops' = <<>>

(***************************************************************************)
(* C16: on a keepalive with reply = 1 the copier sends one status update   *)
(* whose written, flushed and applied LSN are last_lsn, with reply 0;      *)
(* last_lsn is the highest LSN that is durable in a stream chunk;          *)
(* row_count, the chunk counter, the buffer and last_lsn stay as they are  *)
(* and nothing is put.                                                     *)
(***************************************************************************)
C16_KeepAliveAcksHighestDurable ==
  [][SendsStatusUpdate
       => /\ KeepAliveFrame
          /\ StreamNumbers # {}
          /\ last_lsn = MaxDurableLsn
    ]_vars

(* C16 as amended: the same, but last_lsn is the highest LSN that is       *)
(* durable in a stream chunk or, as long as no flush of this run has set   *)
(* it, the consistent_point it was initialised from.                       *)
C16_KeepAliveAcksLastLsn ==
  [][SendsStatusUpdate
       => /\ KeepAliveFrame
          /\ \/ last_lsn = consistent_point
             \/ StreamNumbers # {} /\ last_lsn = MaxDurableLsn
    ]_vars

\* an update has been sent after a flush of this run, with events in the buffer
C16_Witness ==
  /\ pc = "stream"
  /\ status_update # None
  /\ status_update[1].write_lsn = last_lsn
  /\ status_update[1].reply = 0
  /\ last_lsn # consistent_point
  /\ last_lsn = MaxDurableLsn
  /\ row_count > 0

\* the done check of table ti reports the table as complete: the driver goes
\* on to the next table without deleting or copying anything
ReportsComplete == pc = "tables" /\ pc' = "tables" /\ ti' = ti + 1

\* the done check reports the table as not complete: its copy is redone
ReportsNotComplete == pc = "tables" /\ pc' = "copy_table"

(***************************************************************************)
(* C17: table_copy_done reports a table as complete only when the get of   *)
(* its done marker succeeds (the marker is in the bucket), reports it as   *)
(* not complete only on a client error (the marker is absent), and every   *)
(* other failure of the get aborts the run: no table without a done marker *)
(* is skipped.                                                             *)
(***************************************************************************)
C17_CompleteOnlyWhenGetSucceeds ==
  [][/\ ReportsComplete
          => get_done_object_path(schemas[ti].table) \in DOMAIN bucket
     /\ ReportsNotComplete
          => get_done_object_path(schemas[ti].table) \notin DOMAIN bucket
    ]_vars

\* the last_lsn values of a chunk's records never go down
NonDecreasing(chunk) ==
  \A i \in 1..(Len(chunk) - 1) : chunk[i].last_lsn <= chunk[i + 1].last_lsn

(***************************************************************************)
(* C18: whatever messages, crashes and restarts came before, the records   *)
(* of every stream chunk in the bucket have non-decreasing last_lsn, and   *)
(* the first record of chunk n+1 has a last_lsn that is at least that of   *)
(* the last record of chunk n (upstream wal_end never goes down).          *)
(***************************************************************************)
C18_StreamLsnNonDecreasing ==
  /\ \A n \in StreamNumbers : NonDecreasing(StreamChunk(n))
  /\ \A n \in StreamNumbers :
       (n + 1) \in StreamNumbers
         => StreamChunk(n)[Len(StreamChunk(n))].last_lsn <= StreamChunk(n + 1)[1].last_lsn

\* a later run has put chunk 2 after chunk 1, and the LSN rises inside a chunk
C18_Witness ==
  /\ runs > 1
  /\ {1, 2} \subseteq StreamNumbers
  /\ StreamChunk(1)[Len(StreamChunk(1))].last_lsn < StreamChunk(2)[1].last_lsn
  /\ StreamChunk(2)[1].last_lsn < StreamChunk(2)[Len(StreamChunk(2))].last_lsn

(***************************************************************************)
(* C19: the steps of a run come in the driver's order.  The hint is read   *)
(* when the run starts, before the slot is opened; the stream is entered   *)
(* only after the done check or the copy of every published table; so a    *)
(* run puts a stream chunk only when every published table has its done    *)
(* marker; and after a failure the run does nothing more.                  *)
(***************************************************************************)
C19_DriverOrder ==
  [][/\ runs' # runs => (pc' = "tables" /\ ti' = 1 /\ bucket' = bucket
                          /\ resumption_data' = get_relatime_resumption_data)
     /\ (pc # "stream" /\ pc' = "stream") => (pc = "tables" /\ ti > Len(schemas))
     /\ PutsStreamChunk => (pc = "stream" /\ AllTablesDone)
     /\ (pc = "failed" /\ ProcessStep) => (runs' = runs + 1 /\ pc' = "tables")
    ]_vars

\* the number of chunks of a snapshot of n events
ChunksOf(n) == (n + ROWS_PER_DATA_CHUNK - 1) \div ROWS_PER_DATA_CHUNK

(***************************************************************************)
(* C20: when copy_table has copied a table of R rows (its done marker is   *)
(* being put), the table has exactly the chunks 1..ceil((R+1)/10); every   *)
(* chunk but the last holds 10 events and the last holds the rest (at      *)
(* least one: no empty or extra chunk, also when R+1 is a multiple of 10,  *)
(* and one chunk with the Schema event alone when R = 0); the first record *)
(* of chunk 1 is the Schema event; and every row is in the chunks once, as *)
(* an Insert with the relation id of the schema and last_lsn 0.            *)
(***************************************************************************)
C20_SnapshotChunkCount ==
  [][\A i \in 1..Len(schemas) :
       PutsDone(schemas[i].table)
         => LET table == schemas[i].table
                R == rows_total
                k == ChunksOf(R + 1)
                chunk(n) == bucket[ChunkPath(TablePathPrefix(table), n)]
                log == ConcatTable(table, 1..k)
            IN /\ TableChunkNumbers(table) = 1..k
               /\ \A n \in 1..(k - 1) : Len(chunk(n)) = ROWS_PER_DATA_CHUNK
               /\ Len(chunk(k)) = R + 1 - ROWS_PER_DATA_CHUNK * (k - 1)
               /\ Len(chunk(k)) >= 1
               /\ chunk(1)[1].event_type = "Schema"
               /\ chunk(1)[1].relation_id = Some(schemas[i].relation_id)
               /\ \A j \in 2..Len(log) : log[j].event_type = "Insert"
               /\ \A row \in 1..R :
                    \E j \in 1..Len(log) :
                      /\ log[j] = [event_type |-> "Insert",
                                   relation_id |-> Some(schemas[i].relation_id),
                                   last_lsn |-> 0, src |-> row]
                      /\ \A h \in 1..Len(log) : log[h].src = row => h = j
    ]_vars

\* a table of 9 rows has been copied: one chunk of 10 events, then the marker
C20_Witness ==
  /\ sink_ops # <<>>
  /\ sink_ops[1].op = "put"
  /\ \E i \in 1..Len(schemas) :
       /\ get_done_object_path(schemas[i].table) \in sink_ops[1].keys
       /\ TableChunkNumbers(schemas[i].table) = {1}
       /\ Len(bucket[ChunkPath(TablePathPrefix(schemas[i].table), 1)]) = ROWS_PER_DATA_CHUNK

\* the next message of the stream names a relation that is not in the schema
\* map, and the resume filter reports it as skipped
SkippedUnknownRelationNext ==
  /\ pc = "stream"
  /\ pos <= Len(wal)
  /\ NeedsSchema(wal[pos].kind)
  /\ wal[pos].rel_id \notin rel_id_to_schema
  /\ should_skip(resumption_data, wal[pos].wal_end, wal[pos].kind)

(***************************************************************************)
(* C21: for a Relation, Insert, Update or Delete message the resume filter *)
(* is asked before the relation is looked up: a message it reports as      *)
(* skipped is dropped without an error also when its relation is not in    *)
(* the schema map, and the run fails at a message of an unknown relation    *)
(* only when the message is not skipped.                                    *)
(***************************************************************************)
C21_SkipBeforeLookup ==
  [][/\ SkippedUnknownRelationNext
          => /\ pc' # "failed"
             /\ pc' = "stream" =>
                  /\ pos' \in {pos, pos + 1}
                  /\ DropsEvent
                  /\ row_count' = row_count
                  /\ data_chunk_count' = data_chunk_count
                  /\ last_lsn' = last_lsn
                  /\ sink_ops' = <<>>
     /\ (pc = "stream" /\ pc' = "failed" /\ pos <= Len(wal))
          => ~should_skip(resumption_data, wal[pos].wal_end, wal[pos].kind)
    ]_vars

\* a message of an unknown relation has been dropped by the resume filter,
\* and the run goes on with the messages after it
C21_Witness ==
  /\ pc = "stream"
  /\ pos \in 2..Len(wal)
  /\ NeedsSchema(wal[pos - 1].kind)
  /\ wal[pos - 1].rel_id \notin rel_id_to_schema
  /\ resumption_data # None
  /\ wal[pos - 1].wal_end <= resumption_data[1].resume_lsn
  /\ pos - 1 >= StartPos(resumption_data)

\* the largest-numbered stream chunk holds no whole record
ZeroRecords == StreamNumbers # {} /\ parse_last(LastObject, None) = None

(***************************************************************************)
(* C22: when the largest-numbered stream chunk holds no whole record (it   *)
(* is empty, or is the first bytes of one record), the run fails while it  *)
(* reads the hint: the slot is not opened (no consistent point is taken),  *)
(* no table is copied and no object is put or deleted.                     *)
(***************************************************************************)
C22_ZeroRecordsIsFatal ==
  [][ZeroRecords
       => /\ pc' = "failed"
          /\ resumption_data' = None
          /\ consistent_point' = consistent_point
          /\ copied_at' = copied_at
          /\ bucket' = bucket
          /\ sink_ops' = <<>>
    ]_vars

\* a run has failed at an object that is the length prefix and a part of the
\* encoding of its first record
C22_Witness ==
  /\ runs = 1
  /\ pc = "failed"
  /\ ZeroRecords
  /\ Len(LastObject) > 8
  /\ consistent_point = 0

(***************************************************************************)
(* C23: an Origin, Type or Truncate message and a keepalive that asks for  *)
(* no reply leave the stream copier as it is: row_count, the chunk         *)
(* counter, the buffer, last_lsn and skipping_events do not change, no     *)
(* object is put, no status update is sent, and the message is no row of   *)
(* the chunk.                                                              *)
(***************************************************************************)
C23_IgnoredMessagesChangeNothing ==
  [][ignored_msg' # ""
       => /\ pc = "stream"
          /\ pc' = "stream"
          /\ ignored_msg' \in IgnoredKinds \cup {"PrimaryKeepAlive"}
          /\ row_count' = row_count
          /\ data_chunk_count' = data_chunk_count
          /\ data_chunk_buf' = data_chunk_buf
          /\ last_lsn' = last_lsn
          /\ resumption_data' = resumption_data
          /\ status_update' = status_update
          /\ bucket' = bucket
          /\ sink_ops' = <<>>
    ]_vars

\* a Truncate message has been taken by a resumed run that is still skipping,
\* one event short of a full chunk
C23_Witness ==
  /\ ignored_msg = "Truncate"
  /\ row_count = ROWS_PER_DATA_CHUNK - 1
  /\ resumption_data # None
  /\ resumption_data[1].skipping_events
  /\ StreamNumbers # {}

(***************************************************************************)
(* C24: a Commit that should_skip reports as skipped is dropped (it is not *)
(* appended and is no row of the chunk) and stop_skipping_events is        *)
(* called; a skipped Begin, Relation, Insert, Update or Delete is dropped  *)
(* and skipping_events stays as it is; a Commit that is not skipped is     *)
(* appended like any other event, and stop_skipping_events is not called.  *)
(***************************************************************************)
C24_SkippedCommitStopsSkipping ==
  [][TakesMessage
       => IF should_skip(resumption_data, wal[pos].wal_end, wal[pos].kind)
          THEN /\ DropsEvent
               /\ row_count' = row_count
               /\ data_chunk_count' = data_chunk_count
               /\ last_lsn' = last_lsn
               /\ sink_ops' = <<>>
               /\ resumption_data' =
                    IF wal[pos].kind = "Commit"
                    THEN Some([resumption_data[1] EXCEPT !.skipping_events = FALSE])
                    ELSE resumption_data
          ELSE wal[pos].kind = "Commit"
                 => /\ AppendsEvent
                    /\ resumption_data' = resumption_data
                    /\ row_count' = (row_count + 1) % ROWS_PER_DATA_CHUNK
    ]_vars

\* a resumed run has dropped a Commit at resume_lsn and has stopped skipping,
\* and then has appended a Commit that was not skipped
C24_Witness ==
  /\ pc = "stream"
  /\ resumption_data # None
  /\ resumption_data[1].last_event_type # "Commit"
  /\ ~resumption_data[1].skipping_events
  /\ \E i \in 1..Len(data_chunk_buf) :
       /\ data_chunk_buf[i].event_type = "Commit"
       /\ data_chunk_buf[i].last_lsn > resumption_data[1].resume_lsn

(***************************************************************************)
(* C25: whatever flushes, failed puts, crashes and restarts came before,   *)
(* the keys under realtime_changes/ are the numbers 1..n for some n >= 0:  *)
(* a put that fails, or a crash before the put, leaves no gap, though the  *)
(* counter in memory was raised before the put.                            *)
(***************************************************************************)
C25_StreamKeysContiguous ==
  /\ StreamNumbers = 1..Cardinality(StreamKeys)
  /\ \A k \in StreamKeys :
       k = ChunkPath(REALTIME_CHANGES_PATH_PREFIX,
                     ParseU32(StripPrefix(k, REALTIME_CHANGES_PREFIX)))

\* the put of a full chunk has failed in a resumed run: the counter in memory
\* is one above the largest key in the bucket
C25_Witness ==
  /\ pc = "failed"
  /\ runs > 1
  /\ Len(data_chunk_buf) = ROWS_PER_DATA_CHUNK
  /\ StreamNumbers # {}
  /\ data_chunk_count = SetMax(StreamNumbers) + 1

(***************************************************************************)
(* C26: within one run of the stream copier the LSNs of the status updates *)
(* never go down: last_lsn starts at the consistent_point of the client,   *)
(* every assignment to it (the wal_end of an event that caused a flush) is *)
(* at least its value before, and each update carries last_lsn.            *)
(***************************************************************************)
C26_AckNeverMovesBack ==
  [][/\ (pc # "stream" /\ pc' = "stream") => last_lsn' = consistent_point
     /\ (pc = "stream" /\ pc' \in {"stream", "failed"}) => last_lsn' >= last_lsn
     /\ (pc = "stream" /\ status_update' # None /\ status_update' # status_update)
          => status_update'[1].flush_lsn = last_lsn
     /\ (pc = "stream" /\ status_update # None /\ status_update' # None)
          => /\ status_update'[1].write_lsn >= status_update[1].write_lsn
             /\ status_update'[1].flush_lsn >= status_update[1].flush_lsn
             /\ status_update'[1].apply_lsn >= status_update[1].apply_lsn
    ]_vars

\* a run has flushed a chunk, has sent an update with the LSN of that flush
\* and has flushed one more chunk, at a larger LSN
C26_Witness ==
  /\ pc = "stream"
  /\ status_update # None
  /\ status_update[1].flush_lsn > consistent_point
  /\ last_lsn > status_update[1].flush_lsn

====
